---- MODULE Spec2Model ----
(***************************************************************************)
(* A model of Tutorials/12_MD/12a_basics.ipynb: the Lennard-Jones          *)
(* molecular-dynamics classes MDSimulation and MDSimulationSwitch.         *)
(*                                                                         *)
(* Number representation.  The notebook computes in float64.  Here         *)
(*   - lengths (coordinates, boxlength, cutoff, window, delta) are         *)
(*     integers: multiples of one grid unit;                               *)
(*   - every other real quantity (energies, gradients, velocities, sigma,  *)
(*     epsilon, the switching factor) is a fixed-point integer holding     *)
(*     the value times Q, rounded to nearest after each operation, as a    *)
(*     float operation rounds its result;                                  *)
(*   - a reciprocal 1.0/x is kept as the pair <<1, x>> and a product with  *)
(*     it is one rounded division; 1.0/0 of an array element is numpy's    *)
(*     inf, and whatever is computed from it here is nan;                  *)
(*   - nan is the integer NaN, which no finite result reaches.             *)
(* The plot objects (fig, enerplot, the three energy lines) carry no       *)
(* simulation state and are left out, except coorddata, which receives     *)
(* the displayed copy of the coordinates.                                  *)
(***************************************************************************)
EXTENDS Integers, Sequences, FiniteSets, TLC

VARIABLES
    rng,     \* state of numpy's global random generator
    sim,     \* the object the notebook's name sim refers to: its attributes, as assigned so far
    status,  \* "none": no constructor call yet; "constructed": sim is bound; "failed": the constructor raised
    err,     \* the exception the constructor raised, "none" otherwise
    call,    \* the last call made on sim from outside: its arguments, what it left in them, what it returned
    hist,    \* history: every array that has been the current coordinates, oldest first
    rev      \* history: the reversal experiment (only SpecRev changes it)

vars == <<rng, sim, status, err, call, hist, rev>>

-----------------------------------------------------------------------------
(* Bounds of the model and the inputs it enumerates.                       *)

MaxAtomsPerDim == 2
MaxSteps == 3
MaxDisp == 14

Classes == {"MDSimulation", "MDSimulationSwitch"}
BoxLengths == {5, 9, 12}
Cutoffs == {2, 4, 6}
Windows == {0, 1, 2, 3}
SigmaValues == {50}
EpsilonValues == {30}
MassValues == {1, 2}
TempValues == {300}
DtValues == {1}
RngStates == {0, 5}

-----------------------------------------------------------------------------
(* Arithmetic.                                                             *)

Q == 100
NaN == -1000000000
Rgas == 83
delta == 1

Abs(x) == IF x < 0 THEN -x ELSE x

\* a/b rounded to the nearest integer, halves upwards: floor(a/b + 1/2)
Rnd(a, b) == IF b > 0 THEN (2*a + b) \div (2*b) ELSE (2*(-a) + (-b)) \div (2*(-b))

IsNaN(x) == x = NaN
Neg(x) == IF IsNaN(x) THEN NaN ELSE -x
Add(x, y) == IF IsNaN(x) \/ IsNaN(y) THEN NaN ELSE x + y
Sub(x, y) == IF IsNaN(x) \/ IsNaN(y) THEN NaN ELSE x - y
\* the product of two fixed-point numbers
Mul(x, y) == IF IsNaN(x) \/ IsNaN(y) THEN NaN ELSE Rnd(x*y, Q)
\* the product of a number and an integer factor (a length, a count, dt)
Scale(k, x) == IF IsNaN(x) \/ IsNaN(k) THEN NaN ELSE k*x
\* the product x * (1.0/d), the reciprocal kept as r = <<n, d>>; 1.0/0 is inf and the product nan
MulInv(x, r) == IF IsNaN(x) \/ r[2] = 0 THEN NaN ELSE Rnd(x*r[1], r[2])

VAdd(u, v) == <<Add(u[1], v[1]), Add(u[2], v[2])>>
VSub(u, v) == <<Sub(u[1], v[1]), Sub(u[2], v[2])>>
VScale(k, v) == <<Scale(k, v[1]), Scale(k, v[2])>>
VNeg(v) == <<Neg(v[1]), Neg(v[2])>>
VMulInv(v, r) == <<MulInv(v[1], r), MulInv(v[2], r)>>

\* IEEE comparison: False when an operand is nan
Gt(x, y) == ~IsNaN(x) /\ ~IsNaN(y) /\ x > y

RECURSIVE Sum(_, _, _)
\* np.sum of s[lo..hi]: numpy adds the two halves of a range
Sum(s, lo, hi) ==
    IF lo > hi THEN 0
    ELSE IF lo = hi THEN s[lo]
    ELSE Add(Sum(s, lo, (lo + hi) \div 2), Sum(s, (lo + hi) \div 2 + 1, hi))

\* np.sqrt of a fixed-point number
Sqrt(x) == CHOOSE r \in 0..(x + Q) : r*r <= x*Q /\ (r + 1)*(r + 1) > x*Q

-----------------------------------------------------------------------------
(* numpy's global generator: np.random.seed, np.random.rand,               *)
(* np.random.normal.  The stream is a fixed function of the seed.          *)

\* a generator that np.random.seed leaves in the state it was in: C13 must reject it
unseeded(g, s) == g

\* np.random.seed(s): the state of the generator, which was g, is the one s stands for
seed(g, s) == s % 64
rng_next(s) == (s + 37) % 64

\* the generator's state after k draws
rng_after(s, k) == (s + 37 * k) % 64

\* np.random.rand(): uniform in [0, 1), as the pair <<numerator, denominator>>
rand(s) == <<rng_next(s), 64>>

NormalTable == <<-150, -100, -50, -10, 10, 50, 100, 150>>
\* np.random.normal(): a standard normal sample
normal(s) == NormalTable[(rng_next(s) \div 8) + 1]

-----------------------------------------------------------------------------
(* itertools.combinations(range(n), 2), in the order itertools yields.     *)

\* a faulty enumeration, which pairs an index with itself too: C8 must reject it
combinations_with_replacement(i, n) == [k \in 1..(n - i) |-> <<i, i + k - 1>>]

\* the pairs whose first index is i: <<i, i+1>>, ..., <<i, n-1>>
combinations_with(i, n) == [k \in 1..(n - 1 - i) |-> <<i, i + k>>]

RECURSIVE combinations_from(_, _, _)
\* the pairs whose first index is in lo..hi
combinations_from(lo, hi, n) ==
    IF lo > hi THEN << >>
    ELSE IF lo = hi THEN combinations_with(lo, n)
    ELSE combinations_from(lo, (lo + hi) \div 2, n) \o combinations_from((lo + hi) \div 2 + 1, hi, n)

combinations(n) == combinations_from(0, n - 2, n)

-----------------------------------------------------------------------------
(* Exceptions.  Python looks a name up when the raise statement runs:      *)
(* a name bound nowhere raises NameError instead.  BoundNames are the      *)
(* exception names the notebook can resolve: it imports matplotlib, numpy, *)
(* itertools, pyplot, animation and five ipywidgets names, and defines no  *)
(* exception class, so only Python's builtins are bound.                   *)

BoundNames == {"IndexError", "ZeroDivisionError", "AssertionError", "NameError"}

raise(name) == IF name \in BoundNames THEN name ELSE "NameError"

-----------------------------------------------------------------------------
(* MDSimulation.apply_periodicity(self, dR).                               *)
(*     dR -= self.boxlength*np.floor(dR*self.boxinv+0.5); return dR        *)
(* dR is an array of 2-vectors.  The -= writes into the array object that  *)
(* was passed, and that same object is returned: "arg" is what the         *)
(* caller's array holds after the call, "ret" the returned array.          *)

\* a faulty wrap, which rounds down instead of to nearest: C9 must reject it
wrap_floor(self, d) ==
    IF IsNaN(d) THEN NaN
    ELSE d - self.boxlength * ((d * self.boxinv[1]) \div self.boxinv[2])

\* a faulty wrap, which takes off one box length at most: C20 must reject it
wrap_once(self, d) ==
    IF IsNaN(d) THEN NaN
    ELSE IF 2 * d >= self.boxlength THEN d - self.boxlength
    ELSE IF 2 * d < -self.boxlength THEN d + self.boxlength
    ELSE d

wrap(self, d) ==
    IF IsNaN(d) THEN NaN
    ELSE d - self.boxlength * ((2*d*self.boxinv[1] + self.boxinv[2]) \div (2*self.boxinv[2]))

apply_periodicity(self, dR) ==
    LET w == [n \in DOMAIN dR |-> <<wrap(self, dR[n][1]), wrap(self, dR[n][2])>>]
    IN  [arg |-> w, ret |-> w]

-----------------------------------------------------------------------------
(* The pair loop shared by both evaluators:                                *)
(*     for n,(iind,jind) in enumerate(self.pairs):                         *)
(*         forces[iind] += pairforces[n]; forces[jind] -= pairforces[n]    *)
(* forces starts as np.zeros; entry atom ends as the sum of what the loop  *)
(* body has added to it.                                                   *)

\* a faulty loop body, which adds the pair force to both atoms: C7 must reject it
gather(iind, jind, pairforce, atom) ==
    IF atom = iind \/ atom = jind THEN pairforce ELSE <<0, 0>>

\* a faulty loop body, with the two signs exchanged: C12 must reject it
scatter_reversed(iind, jind, pairforce, atom) ==
    IF atom = iind THEN VNeg(pairforce)
    ELSE IF atom = jind THEN pairforce
    ELSE <<0, 0>>

\* what one pass of the loop body adds to forces[atom]
scatter(iind, jind, pairforce, atom) ==
    IF atom = iind THEN pairforce
    ELSE IF atom = jind THEN VNeg(pairforce)
    ELSE <<0, 0>>

RECURSIVE accumulate(_, _, _, _, _)
\* what the passes lo..hi of the loop add to forces[atom]
accumulate(pairs, pairforces, atom, lo, hi) ==
    IF lo > hi THEN <<0, 0>>
    ELSE IF lo = hi THEN scatter(pairs[lo][1], pairs[lo][2], pairforces[lo], atom)
    ELSE VAdd(accumulate(pairs, pairforces, atom, lo, (lo + hi) \div 2),
              accumulate(pairs, pairforces, atom, (lo + hi) \div 2 + 1, hi))

\* coords[self.jindices] and coords[self.iindices] take rows of coords by index: an index
\* that coords has no row for raises IndexError, and rows no index names are not looked at
indexable(self, coords) ==
    \A n \in 1..Len(self.pairs) :
        self.iindices[n] \in DOMAIN coords /\ self.jindices[n] \in DOMAIN coords

\* coords[self.jindices] - coords[self.iindices]
pair_differences(self, coords) ==
    [n \in 1..Len(self.pairs) |-> VSub(coords[self.jindices[n]], coords[self.iindices[n]])]

\* one element of np.einsum('ab,ab->a', dR, dR)
einsum_r2(d) ==
    IF IsNaN(d[1]) \/ IsNaN(d[2]) THEN NaN ELSE d[1]*d[1] + d[2]*d[2]

\* a faulty mask, which keeps every pair: C5 must reject it
no_mask(self, r2) == <<1, r2>>

\* r2inv = 1.0/r2; r2inv[r2>self.cutoff2] = 0.0   (a comparison with nan is False)
cutoff_mask(self, r2) ==
    IF Gt(r2, self.cutoff2) THEN <<0, 1>> ELSE <<1, r2>>

\* x * r2inv, where r2 may be nan
TimesInv(x, r2inv, r2) == IF IsNaN(r2) THEN NaN ELSE MulInv(x, r2inv)

Square(x) == Mul(x, x)
Cube(x) == Mul(Mul(x, x), x)

(* The array expressions of compute_energy_and_gradient_cutoff, for the    *)
(* pair whose minimum-image difference is d: numpy applies each of them    *)
(* element by element.                                                     *)
cutoff_pair(self, d) ==
    LET r2 == einsum_r2(d)
        r2inv == cutoff_mask(self, r2)
        sig_r2 == TimesInv(self.sig2, r2inv, r2)
        sig_r6 == Cube(sig_r2)
        sig_r12 == Square(sig_r6)
        repulsive == Mul(self.foureps, sig_r12)
        attractive == Mul(self.foureps, sig_r6)
        pairenergy == Sub(repulsive, attractive)
        factor == TimesInv(Scale(6, Add(repulsive, pairenergy)), r2inv, r2)
    IN  [r2 |-> r2, r2inv |-> r2inv, sig_r2 |-> sig_r2, sig_r6 |-> sig_r6, sig_r12 |-> sig_r12,
         repulsive |-> repulsive, attractive |-> attractive, pairenergy |-> pairenergy,
         pairforce |-> <<Scale(d[1], factor), Scale(d[2], factor)>>]

RECURSIVE pair_terms_cutoff(_, _, _, _)
\* the per-pair arrays, pair lo to pair hi
pair_terms_cutoff(self, dR, lo, hi) ==
    IF lo > hi THEN << >>
    ELSE IF lo = hi THEN <<cutoff_pair(self, dR[lo])>>
    ELSE pair_terms_cutoff(self, dR, lo, (lo + hi) \div 2) \o
         pair_terms_cutoff(self, dR, (lo + hi) \div 2 + 1, hi)

\* what both evaluators return, from the per-pair arrays
evaluation(self, terms) ==
    LET np == Len(terms)
        pairenergies == [n \in 1..np |-> terms[n].pairenergy]
        pairforces == [n \in 1..np |-> terms[n].pairforce]
    IN  [raised |-> "none",
         energy |-> Sum(pairenergies, 1, np),
         forces |-> [atom \in 0..(self.natoms - 1) |-> accumulate(self.pairs, pairforces, atom, 1, np)],
         terms |-> terms]

(* MDSimulation.compute_energy_and_gradient_cutoff(self, coords)           *)
compute_energy_and_gradient_cutoff(self, coords) ==
    IF ~indexable(self, coords)
    THEN [raised |-> raise("IndexError")]
    ELSE evaluation(self,
            pair_terms_cutoff(self, apply_periodicity(self, pair_differences(self, coords)).ret,
                              1, Len(self.pairs)))

\* a faulty switch, which is not set to zero beyond the cutoff: C14 must reject it
switch_unclipped(self, r2, ron2, roff2, denom) ==
    IF Gt(r2, ron2)
    THEN MulInv(Q * ((roff2 + 2*r2 - 3*ron2) * (roff2 - r2) * (roff2 - r2)), denom)
    ELSE Q

\* switch = np.where(r2>ron2, (roff2 + 2.0*r2 - 3.0*ron2)*(roff2 - r2)**2 * denom, 1.0)
\* switch[r2>self.cutoff2] = 0.0
switch_factor(self, r2, ron2, roff2, denom) ==
    IF Gt(r2, self.cutoff2) THEN 0
    ELSE IF Gt(r2, ron2)
         THEN MulInv(Q * ((roff2 + 2*r2 - 3*ron2) * (roff2 - r2) * (roff2 - r2)), denom)
         ELSE Q

\* dswitch = np.where(r2>ron2, -12.0*(r2 - roff2)*(r2 - ron2) * denom, 0.0)
\* dswitch[r2>self.cutoff2] = 0.0
dswitch_factor(self, r2, ron2, roff2, denom) ==
    IF Gt(r2, self.cutoff2) THEN 0
    ELSE IF Gt(r2, ron2)
         THEN MulInv(Q * (-12 * (r2 - roff2) * (r2 - ron2)), denom)
         ELSE 0

\* ron2 = (self.cutoff-self.window)**2
switch_on2(self) == (self.cutoff - self.window) * (self.cutoff - self.window)

\* (roff2 - ron2)**3
switch_cube(self) ==
    (self.cutoff2 - switch_on2(self)) * (self.cutoff2 - switch_on2(self)) * (self.cutoff2 - switch_on2(self))

(* The array expressions of compute_energy_and_gradient_switch for one     *)
(* pair.                                                                   *)
switch_pair(self, d) ==
    LET ron2 == switch_on2(self)
        roff2 == self.cutoff2
        denom == <<1, switch_cube(self)>>
        r2 == einsum_r2(d)
        r2inv == <<1, r2>>
        switch == switch_factor(self, r2, ron2, roff2, denom)
        dswitch == dswitch_factor(self, r2, ron2, roff2, denom)
        sig_r2 == TimesInv(self.sig2, r2inv, r2)
        sig_r6 == Cube(sig_r2)
        sig_r12 == Square(sig_r6)
        rep == Mul(self.foureps, sig_r12)
        att == Mul(self.foureps, sig_r6)
        pairenergy == Mul(switch, Sub(rep, att))
        factor == Add(Mul(Mul(TimesInv(Scale(6, Q), r2inv, r2), switch),
                          Sub(Scale(2, rep), att)),
                      Mul(dswitch, Sub(rep, att)))
    IN  [r2 |-> r2, r2inv |-> r2inv, switch |-> switch, dswitch |-> dswitch,
         sig_r2 |-> sig_r2, sig_r6 |-> sig_r6, sig_r12 |-> sig_r12,
         rep |-> rep, att |-> att, pairenergy |-> pairenergy,
         pairforce |-> <<Scale(d[1], factor), Scale(d[2], factor)>>]

RECURSIVE pair_terms_switch(_, _, _, _)
pair_terms_switch(self, dR, lo, hi) ==
    IF lo > hi THEN << >>
    ELSE IF lo = hi THEN <<switch_pair(self, dR[lo])>>
    ELSE pair_terms_switch(self, dR, lo, (lo + hi) \div 2) \o
         pair_terms_switch(self, dR, (lo + hi) \div 2 + 1, hi)

(* MDSimulationSwitch.compute_energy_and_gradient_switch(self, coords)     *)
(* denom = 1.0 / (roff2 - ron2)**3 divides two Python scalars: a zero      *)
(* divisor raises ZeroDivisionError.                                       *)
compute_energy_and_gradient_switch(self, coords) ==
    IF switch_cube(self) = 0
    THEN [raised |-> raise("ZeroDivisionError")]
    ELSE IF ~indexable(self, coords)
    THEN [raised |-> raise("IndexError")]
    ELSE evaluation(self,
            pair_terms_switch(self, apply_periodicity(self, pair_differences(self, coords)).ret,
                              1, Len(self.pairs)))

\* a class whose override is never reached: C15 must reject it
not_overridden(self, coords) == compute_energy_and_gradient_cutoff(self, coords)

\* a faulty override, which has no test of the window: C6 must reject it
always_switch(self, coords) ==
    IF self.cls = "MDSimulationSwitch"
    THEN compute_energy_and_gradient_switch(self, coords)
    ELSE compute_energy_and_gradient_cutoff(self, coords)

(* compute_energy_and_gradient: MDSimulation's, and MDSimulationSwitch's   *)
(* override of it; the call is dispatched on the object's class.           *)
compute_energy_and_gradient(self, coords) ==
    IF self.cls = "MDSimulationSwitch"
    THEN IF self.window = 0
         THEN compute_energy_and_gradient_cutoff(self, coords)
         ELSE compute_energy_and_gradient_switch(self, coords)
    ELSE compute_energy_and_gradient_cutoff(self, coords)

-----------------------------------------------------------------------------
(* MDSimulation.init_coords(self): the regular lattice, each coordinate    *)
(* moved by 0.2*(rand - 0.5); 0.2 is two grid units.  g is the generator's *)
(* state on entry; rand(natoms,2) draws row by row.                        *)

\* np.linspace(-L/2, L/2, atoms_per_dim, endpoint=False)[k] + L/(2*atoms_per_dim)
spacing(self, k) ==
    Rnd(self.boxlength * (2*k + 1 - self.atoms_per_dim), 2 * self.atoms_per_dim)

jitter(u) == Rnd(2 * (2*u[1] - u[2]), 2 * u[2])

init_coords(self, g) ==
    LET apd == self.atoms_per_dim
    IN  [coords |-> [a \in 0..(self.natoms - 1) |->
                       << spacing(self, a \div apd) + jitter(rand(rng_after(g, 2*a))),
                          spacing(self, a % apd) + jitter(rand(rng_after(g, 2*a + 1))) >>],
         rng |-> rng_after(g, 2 * self.natoms)]

\* 0.5*mass*np.sum(np.square(v))
square_norm(u) == Add(Mul(u[1], u[1]), Mul(u[2], u[2]))

kinetic(mass, v, natoms) ==
    LET sq == [k \in 1..natoms |-> square_norm(v[k - 1])]
    IN  MulInv(Scale(mass, Sum(sq, 1, natoms)), <<1, 2>>)

\* a faulty acceleration, which takes the array returned for the force: C17 must reject it
unsigned(self, gradient) ==
    [atom \in DOMAIN gradient |-> VMulInv(gradient[atom], self.minv)]

\* a = -self.minv*gradient
acceleration(self, gradient) ==
    [atom \in DOMAIN gradient |-> VNeg(VMulInv(gradient[atom], self.minv))]

\* a fixed-point length as a number of grid units
ToGrid(x) == IF IsNaN(x) THEN NaN ELSE Rnd(x, Q)
VToGrid(v) == <<ToGrid(v[1]), ToGrid(v[2])>>

-----------------------------------------------------------------------------
(* MDSimulation.__init__ and MDSimulationSwitch.__init__.  args holds the  *)
(* constructor's arguments and the class constructed; g is the generator's *)
(* state on entry.  The result is the object with the attributes assigned  *)
(* before the constructor returned or raised.                              *)

init_attributes(args) ==
    LET natoms == args.atoms_per_dim * args.atoms_per_dim
        pairs == combinations(natoms)
        sigmaij == 2 * args.sigma
    IN  (IF args.cls = "MDSimulationSwitch" THEN [window |-> args.window] ELSE << >>) @@
        [cls |-> args.cls, sigma |-> args.sigma, epsilon |-> args.epsilon, mass |-> args.mass,
         dt |-> args.dt, T |-> args.temp, RT |-> Rnd(Rgas * args.temp, Q),
         atoms_per_dim |-> args.atoms_per_dim, boxlength |-> args.boxlength,
         cutoff |-> args.cutoff, nsteps |-> args.nsteps,
         cutoff2 |-> args.cutoff * args.cutoff, foureps |-> 4 * args.epsilon,
         natoms |-> natoms, pairs |-> pairs]

index_attributes(self) ==
    [iindices |-> [n \in 1..Len(self.pairs) |-> self.pairs[n][1]],
     jindices |-> [n \in 1..Len(self.pairs) |-> self.pairs[n][2]],
     sigmaij |-> 2 * self.sigma, sig2 |-> Mul(2 * self.sigma, 2 * self.sigma),
     boxinv |-> <<1, self.boxlength>>, minv |-> <<1, self.mass>>]

\* velocities = np.sqrt(self.RT/self.mass)*np.random.normal(size=(self.natoms,2))
init_velocities(self, g) ==
    LET vs == Sqrt(MulInv(self.RT, <<1, self.mass>>))
    IN  [atom \in 0..(self.natoms - 1) |->
            <<Mul(vs, normal(rng_after(g, 2*atom))), Mul(vs, normal(rng_after(g, 2*atom + 1)))>>]

\* self.coords += velocities*self.dt + 0.5*self.dt*self.dt*a
first_step(self, velocities, a) ==
    [atom \in 0..(self.natoms - 1) |->
        VAdd(self.coords[atom],
             VToGrid(VAdd(VScale(self.dt, velocities[atom]),
                          VMulInv(VScale(self.dt * self.dt, a[atom]), <<1, 2>>))))]

(* The constructor from the velocities on.  self has the attributes        *)
(* assigned so far, g is the generator's state after init_coords, and ev   *)
(* is what self.compute_energy_and_gradient(self.coords) returned.         *)
init_dynamics(self, g, ev) ==
    LET velocities == init_velocities(self, g)
        KE == kinetic(self.mass, velocities, self.natoms)
        x1 == first_step(self, velocities, acceleration(self, ev.forces))
    IN  IF ev.raised # "none"
        THEN [self |-> self, raised |-> ev.raised, rng |-> rng_after(g, 2 * self.natoms)]
        ELSE [self |-> [coords |-> x1, coorddata |-> x1] @@ self @@
                       [timestep |-> 0, timeseries |-> <<0>>, PEs |-> <<ev.energy>>,
                        KEs |-> <<KE>>, TEs |-> <<Add(KE, ev.energy)>>],
              raised |-> "none", rng |-> rng_after(g, 2 * self.natoms)]

\* np.random.seed(0); self.init_coords(); self.last_coords = np.copy(self.coords); and the rest
init_positions(self, g) ==
    init_dynamics(self, g, compute_energy_and_gradient(self, self.coords))

MDSimulation_init(args, g) ==
    LET s1 == init_attributes(args)
        s2 == s1 @@ index_attributes(s1)
        ic == init_coords(s2, seed(g, 0))
    IN  IF Len(s1.pairs) = 0
        THEN \* self.pairs is an empty 1-d array: self.pairs[:,0] has too many indices
             [self |-> s1, raised |-> raise("IndexError"), rng |-> g]
        ELSE IF 2 * args.cutoff >= args.boxlength
        THEN [self |-> s2, raised |-> raise("ValidationError"), rng |-> g]
        ELSE init_positions(s2 @@ [coords |-> ic.coords, last_coords |-> ic.coords], ic.rng)

-----------------------------------------------------------------------------
(* MDSimulation.propagate(self): one step of position Verlet.              *)

\* a faulty recurrence, which forgets the previous positions: C2 and C4 must reject it
drift(self, a) ==
    [atom \in DOMAIN self.coords |->
        VAdd(self.coords[atom], VToGrid(VScale(self.dt * self.dt, a[atom])))]

\* newcoords = 2*self.coords - self.last_coords + self.dt*self.dt*a
verlet(self, a) ==
    [atom \in DOMAIN self.coords |->
        VAdd(VSub(VScale(2, self.coords[atom]), self.last_coords[atom]),
             VToGrid(VScale(self.dt * self.dt, a[atom])))]

\* a faulty velocity, the one-sided difference from the current positions: C18 must
\* reject it
one_sided(self, newcoords) ==
    [atom \in DOMAIN newcoords |->
        VMulInv(VScale(Q, VSub(newcoords[atom], self.coords[atom])), <<1, self.dt>>)]

\* v = (newcoords - self.last_coords)/(2*self.dt)
central_velocity(self, newcoords) ==
    [atom \in DOMAIN newcoords |->
        VMulInv(VScale(Q, VSub(newcoords[atom], self.last_coords[atom])), <<1, 2 * self.dt>>)]

\* a faulty list.append, which writes over the last record: C3 must reject it
overwrite(list, x) == [list EXCEPT ![Len(list)] = x]

\* list.append(x)
append(list, x) == Append(list, x)

\* the method from its second line on; ev is what the evaluator returned
verlet_step(self, ev) ==
    LET PE == ev.energy
        newcoords == verlet(self, acceleration(self, ev.forces))
        KE == kinetic(self.mass, central_velocity(self, newcoords), self.natoms)
        displaycoords == apply_periodicity(self, newcoords).ret
    IN  IF ev.raised # "none"
        THEN [self |-> self, raised |-> ev.raised]
        ELSE [self |-> [self EXCEPT !.last_coords = self.coords,
                                    !.coords = newcoords,
                                    !.coorddata = displaycoords,
                                    !.timestep = self.timestep + self.dt,
                                    !.timeseries = append(self.timeseries, self.timestep + self.dt),
                                    !.PEs = append(self.PEs, PE),
                                    !.KEs = append(self.KEs, KE),
                                    !.TEs = append(self.TEs, Add(PE, KE))],
              raised |-> "none"]

propagate(self) == verlet_step(self, compute_energy_and_gradient(self, self.coords))

-----------------------------------------------------------------------------
(* MDSimulation.testgrad(self): the gradient by centred finite             *)
(* differences.  self.coords is displaced in place, one coordinate at a    *)
(* time, and displaced back.  delta is one grid unit here (1e-6 in the     *)
(* notebook), the smallest displacement the grid has.                      *)

\* coords[atom, c] += d
displace(coords, atom, c, d) == [coords EXCEPT ![atom][c] = Add(@, d)]

\* self.coords when the first of the two energies of coordinate c is computed
plus(coords, atom, c) == displace(coords, atom, c, delta)

\* self.coords when the second is computed
minus(coords, atom, c) == displace(displace(plus(coords, atom, c), atom, c, -delta), atom, c, -delta)

\* a faulty sequence of displacements, without the last one: C19 must reject it
unrestored(coords, atom, c) == minus(coords, atom, c)

\* self.coords after the four displacements of coordinate c
restored(coords, atom, c) == displace(minus(coords, atom, c), atom, c, delta)

\* (Ep - Em)/(2*delta)
centred(Ep, Em) == MulInv(Sub(Ep, Em), <<1, 2 * delta>>)

\* one entry of fdgrad; coords is self.coords when the entry's displacements begin
finite_difference(self, coords, atom, c) ==
    centred(compute_energy_and_gradient(self, plus(coords, atom, c)).energy,
            compute_energy_and_gradient(self, minus(coords, atom, c)).energy)

\* np.allclose(a, b) of two numbers: |a - b| <= atol + rtol*|b|, atol = 1e-8, rtol = 1e-5
allclose(a, b) ==
    /\ ~IsNaN(a)
    /\ ~IsNaN(b)
    /\ \/ a = b
       \/ Abs(a - b) <= Abs(b) \div 100000

\* one pass of the loop over atoms; before is what the passes before it left
testgrad_atom(self, before, atom) ==
    [fdgrad |-> Append(before.fdgrad,
                       <<finite_difference(self, before.coords, atom, 1),
                         finite_difference(self, restored(before.coords, atom, 1), atom, 2)>>),
     coords |-> restored(restored(before.coords, atom, 1), atom, 2)]

RECURSIVE testgrad_loop(_, _)
\* the first n passes of the loop: the coordinates they leave and the rows of fdgrad
testgrad_loop(self, n) ==
    IF n = 0 THEN [coords |-> self.coords, fdgrad |-> << >>]
    ELSE testgrad_atom(self, testgrad_loop(self, n - 1), n - 1)

\* the method after the loop; ref is (refE, refF)
testgrad_assert(self, ref, loop) ==
    LET fdgrad == [atom \in 0..(self.natoms - 1) |-> loop.fdgrad[atom + 1]]
        close == \A atom \in 0..(self.natoms - 1) : \A c \in 1..2 :
                     allclose(ref.forces[atom][c], fdgrad[atom][c])
    IN  IF ref.raised # "none"
        THEN [self |-> self, raised |-> ref.raised, refF |-> << >>, fdgrad |-> << >>]
        ELSE [self |-> [self EXCEPT !.coords = loop.coords],
              raised |-> IF close THEN "none" ELSE raise("AssertionError"),
              refF |-> ref.forces, fdgrad |-> fdgrad]

testgrad(self) ==
    testgrad_assert(self, compute_energy_and_gradient(self, self.coords),
                    testgrad_loop(self, self.natoms))

-----------------------------------------------------------------------------
(* The state machine: what a notebook cell can do with the name sim.       *)

NoCall == [op |-> "none"]
NoRev == [done |-> FALSE, fwd |-> 0, back |-> 0]

Init ==
    /\ rng \in RngStates
    /\ sim = << >>
    /\ status = "none"
    /\ err = "none"
    /\ call = NoCall
    /\ hist = << >>
    /\ rev = NoRev

\* the assignment to sim of what the constructor call r left, if it returned
Bind(r) ==
    /\ sim' = r.self
    /\ rng' = r.rng
    /\ err' = r.raised
    /\ status' = IF r.raised = "none" THEN "constructed" ELSE "failed"
    /\ hist' = IF r.raised = "none" THEN <<r.self.last_coords, r.self.coords>> ELSE << >>

\* sim = MDSimulation(...) or sim = MDSimulationSwitch(...)
Construct ==
    /\ status = "none"
    /\ \E cls \in Classes, atoms_per_dim \in 1..MaxAtomsPerDim, boxlength \in BoxLengths,
          cutoff \in Cutoffs, sigma \in SigmaValues, epsilon \in EpsilonValues,
          mass \in MassValues, temp \in TempValues, dt \in DtValues :
         \E window \in (IF cls = "MDSimulationSwitch" THEN Windows ELSE {0}) :
            Bind(MDSimulation_init(
                    [cls |-> cls, sigma |-> sigma, epsilon |-> epsilon, mass |-> mass,
                     temp |-> temp, dt |-> dt, atoms_per_dim |-> atoms_per_dim,
                     boxlength |-> boxlength, cutoff |-> cutoff, window |-> window,
                     nsteps |-> MaxSteps], rng))
    /\ UNCHANGED <<call, rev>>

Steps == Len(hist) - 2

\* a call of propagate that left r
Step(r) ==
    /\ call = NoCall
    /\ sim' = r.self
    /\ hist' = IF r.raised = "none" THEN Append(hist, r.self.coords) ELSE hist
    /\ call' = [op |-> "propagate", raised |-> r.raised]
    /\ UNCHANGED <<rng, status, err>>

\* sim.propagate()
Propagate ==
    /\ status = "constructed"
    /\ ~rev.done
    /\ Steps < MaxSteps
    /\ Step(propagate(sim))
    /\ UNCHANGED rev

\* the arrays handed to the evaluator: sim.coords itself, sim.coords with the first or
\* the last atom put at a chosen offset from its successor, and sim.coords with a row
\* less and with a row more
Offsets == {<<x, y>> : x \in (-1)..5, y \in 0..2}

Resized ==
    {[a \in 0..(sim.natoms - 2) |-> sim.coords[a]],
     [a \in 0..sim.natoms |-> IF a < sim.natoms THEN sim.coords[a] ELSE <<0, 0>>]}

TestArrays ==
    {sim.coords} \cup Resized \cup
    {[sim.coords EXCEPT ![a] = VAdd(sim.coords[(a + 1) % sim.natoms], o)] :
        a \in {0, sim.natoms - 1}, o \in Offsets}

Methods ==
    {"compute_energy_and_gradient", "compute_energy_and_gradient_cutoff"} \cup
    (IF sim.cls = "MDSimulationSwitch" THEN {"compute_energy_and_gradient_switch"} ELSE {})

invoke(self, method, coords) ==
    IF method = "compute_energy_and_gradient_cutoff"
    THEN compute_energy_and_gradient_cutoff(self, coords)
    ELSE IF method = "compute_energy_and_gradient_switch"
    THEN compute_energy_and_gradient_switch(self, coords)
    ELSE compute_energy_and_gradient(self, coords)

\* sim.compute_energy_and_gradient(X), or one of the two evaluators called by name
Evaluate ==
    /\ status = "constructed"
    /\ call = NoCall
    /\ \E method \in Methods, X \in TestArrays :
          call' = [op |-> method, arg |-> X, after |-> X, ret |-> invoke(sim, method, X)]
    /\ UNCHANGED <<rng, sim, status, err, hist, rev>>

\* a call of testgrad that left r
Checked(r) ==
    /\ sim' = r.self
    /\ call' = [op |-> "testgrad", raised |-> r.raised, refF |-> r.refF, fdgrad |-> r.fdgrad]

\* sim.testgrad()
TestGrad ==
    /\ status = "constructed"
    /\ call = NoCall
    /\ Checked(testgrad(sim))
    /\ UNCHANGED <<rng, status, err, hist, rev>>

\* the displacement arrays handed to apply_periodicity
Displacements ==
    {<< <<d, -d>>, <<2*d, sim.boxlength - d>> >> : d \in (-MaxDisp)..MaxDisp}

\* sim.apply_periodicity(dR)
ApplyPeriodicity ==
    /\ status = "constructed"
    /\ call = NoCall
    /\ \E dR \in Displacements :
          LET r == apply_periodicity(sim, dR)
          IN  call' = [op |-> "apply_periodicity", arg |-> dR, after |-> r.arg, ret |-> r.ret]
    /\ UNCHANGED <<rng, sim, status, err, hist, rev>>

\* the statement that made the call is over: the names of its argument and result are gone
Return ==
    /\ call # NoCall
    /\ call' = NoCall
    /\ UNCHANGED <<rng, sim, status, err, hist, rev>>

Next ==
    \/ Construct
    \/ Propagate
    \/ Evaluate
    \/ TestGrad
    \/ ApplyPeriodicity
    \/ Return

Spec == Init /\ [][Next]_vars

-----------------------------------------------------------------------------
(* Running a trajectory backwards.  The notebook has no method for it; its *)
(* text says the algorithm "can be run in reverse to recover the starting  *)
(* positions": the two stored arrays exchange their roles, and propagate() *)
(* then steps back in time.                                                *)

Reverse ==
    /\ status = "constructed"
    /\ ~rev.done
    /\ call = NoCall
    /\ sim' = [sim EXCEPT !.coords = sim.last_coords, !.last_coords = sim.coords]
    /\ rev' = [done |-> TRUE, fwd |-> Steps, back |-> 0]
    /\ UNCHANGED <<rng, status, err, call, hist>>

PropagateBack ==
    /\ status = "constructed"
    /\ rev.done
    /\ rev.back < rev.fwd
    /\ Step(propagate(sim))
    /\ rev' = [rev EXCEPT !.back = @ + 1]

NextRev ==
    \/ Construct
    \/ Propagate
    \/ Reverse
    \/ PropagateBack
    \/ Return

SpecRev == Init /\ [][NextRev]_vars

-----------------------------------------------------------------------------
(* The claims.                                                             *)

\* the attributes that hold positions, the position history and the energy record
Created == {"coords", "last_coords", "coorddata", "timestep", "timeseries", "PEs", "KEs", "TEs"}

\* the constructor was given cutoff >= boxlength/2 and at least two atoms
CutoffTooLarge == sim # << >> /\ 2 * sim.cutoff >= sim.boxlength /\ sim.natoms >= 2

(* C1: constructing a simulation of either class with cutoff >=            *)
(* boxlength/2 fails at construction with a configuration error, and       *)
(* creates no positions, no position history and no energy record.  The    *)
(* exception the notebook names for it is ValidationError.                 *)
C1_ConfigurationError ==
    CutoffTooLarge =>
        /\ status = "failed"
        /\ err = "ValidationError"
        /\ DOMAIN sim \cap Created = {}


\* a propagate() call is the step taken
IsPropagate == status = "constructed" /\ Len(hist') = Len(hist) + 1

\* 2*c - p + dt^2*a for one coordinate, a = -minv*g
C2_Recurrence(c, p, g, self) ==
    Add(Sub(Scale(2, c), p), ToGrid(Scale(self.dt * self.dt, Neg(MulInv(g, self.minv)))))

C2_Transition ==
    IsPropagate =>
        /\ sim'.last_coords = sim.coords
        /\ DOMAIN sim'.coords = 0..(sim.natoms - 1)
        /\ \A atom \in 0..(sim.natoms - 1) : \A c \in 1..2 :
              sim'.coords[atom][c] =
                  C2_Recurrence(sim.coords[atom][c], sim.last_coords[atom][c],
                                compute_energy_and_gradient(sim, sim.coords).forces[atom][c], sim)

C2_OneStepEarlier ==
    status = "constructed" =>
        /\ sim.coords = hist[Len(hist)]
        /\ sim.last_coords = hist[Len(hist) - 1]
        /\ DOMAIN sim.coords = 0..(sim.natoms - 1)
        /\ DOMAIN sim.last_coords = 0..(sim.natoms - 1)

(* C2: every propagate() call leaves current = 2*c - p + dt^2*a, with a    *)
(* from the evaluator at c, and previous = c, where c and p are the        *)
(* current and previous positions before the call; so after construction   *)
(* and after any number of calls the previous positions are the positions  *)
(* that were current one step earlier, and both arrays have N rows.        *)
C2_PositionVerlet == []C2_OneStepEarlier /\ [][C2_Transition]_vars

\* a propagate() call has acted, and the acceleration moved an atom
C2_Witness ==
    /\ status = "constructed"
    /\ Steps >= 1
    /\ \E atom \in 0..(sim.natoms - 1) : \E c \in 1..2 :
          /\ ~IsNaN(sim.coords[atom][c])
          /\ sim.coords[atom][c] # 2 * hist[Len(hist) - 1][atom][c] - hist[Len(hist) - 2][atom][c]

Series == {"timeseries", "PEs", "KEs", "TEs"}

\* s continues t: t is what s began with
Continues(s, t) == Len(s) >= Len(t) /\ SubSeq(s, 1, Len(t)) = t

C3_Lengths ==
    status = "constructed" =>
        /\ \A f \in Series : Len(sim[f]) = Steps + 1
        /\ sim.timeseries[1] = 0

C3_Appends ==
    status = "constructed" =>
        \A f \in Series :
            /\ Continues(sim'[f], sim[f])
            /\ Len(sim'[f]) = Len(sim[f]) + (IF IsPropagate THEN 1 ELSE 0)

(* C3: the energy history is append-only.  Construction creates one        *)
(* record, at time 0; every propagate() call appends one record to each of *)
(* the time, potential, kinetic and total series; no operation removes or  *)
(* rewrites an earlier record; after k calls the four series have length   *)
(* k+1.                                                                    *)
C3_AppendOnly == []C3_Lengths /\ [][C3_Appends]_vars

\* three calls have been made and an evaluator call follows them
C3_Witness ==
    /\ status = "constructed"
    /\ Steps = 3
    /\ Len(sim.PEs) = 4
    /\ sim.PEs[4] # sim.PEs[1]
    /\ call.op = "compute_energy_and_gradient"

\* no entry of the array X is nan
Finite(X) == \A atom \in DOMAIN X : ~IsNaN(X[atom][1]) /\ ~IsNaN(X[atom][2])

\* K calls forward, the exchange of the two arrays, and K calls back have been made
Reversed == status = "constructed" /\ rev.done /\ rev.back = rev.fwd

\* the original pair, the two arrays in exchanged roles
BackAtStart == sim.coords = hist[1] /\ sim.last_coords = hist[2]

(* C4, as the spec states it: for any K >= 0, K propagate() calls, the     *)
(* exchange of current and previous positions, and K more calls return     *)
(* current/previous positions to the original pair.                        *)
C4_AnyTrajectory == Reversed => BackAtStart

(* C4, as the code has it: the same, for the trajectories on which every   *)
(* position computed is a number.  Where two atoms coincide the evaluator  *)
(* divides by zero, the positions become nan, and nothing is recovered.    *)
C4_TimeReversible ==
    (Reversed /\ \A n \in 1..Len(hist) : Finite(hist[n])) => BackAtStart

\* three calls forward and three back, on a trajectory the forces have bent
C4_Witness ==
    /\ Reversed
    /\ rev.fwd = 3
    /\ \A n \in 1..Len(hist) : Finite(hist[n])
    /\ \E n \in 3..Len(hist) : \E atom \in 0..(sim.natoms - 1) : \E c \in 1..2 :
          hist[n][atom][c] # 2 * hist[n - 1][atom][c] - hist[n - 2][atom][c]

\* the squared minimum-image distance of the pair p in the array X
Distance2(self, X, p) ==
    einsum_r2(apply_periodicity(self, << VSub(X[p[2]], X[p[1]]) >>).ret[1])

\* the pair p is beyond the cutoff in X
Beyond(self, X, p) == Gt(Distance2(self, X, p), self.cutoff2)

\* self, its pair list replaced by pairs
WithPairs(self, pairs) ==
    [self EXCEPT !.pairs = pairs,
                 !.iindices = [n \in 1..Len(pairs) |-> pairs[n][1]],
                 !.jindices = [n \in 1..Len(pairs) |-> pairs[n][2]]]

\* self without the pairs that are beyond the cutoff in X
Within(self, X) == WithPairs(self, SelectSeq(self.pairs, LAMBDA p : ~Beyond(self, X, p)))

(* C5: in compute_energy_and_gradient_cutoff every pair whose              *)
(* minimum-image distance is greater than the cutoff has pair energy zero  *)
(* and pair force zero, and the energy and the forces returned are those   *)
(* of the pairs with r^2 <= cutoff^2 alone.                                *)
C5_ZeroBeyondCutoff ==
    (call.op = "compute_energy_and_gradient_cutoff" /\ call.ret.raised = "none") =>
        /\ \A n \in 1..Len(sim.pairs) :
              Beyond(sim, call.arg, sim.pairs[n]) =>
                  /\ call.ret.terms[n].pairenergy = 0
                  /\ call.ret.terms[n].pairforce = <<0, 0>>
        /\ call.ret.energy = compute_energy_and_gradient_cutoff(Within(sim, call.arg), call.arg).energy
        /\ call.ret.forces = compute_energy_and_gradient_cutoff(Within(sim, call.arg), call.arg).forces

\* a pair just beyond the cutoff, whose Lennard-Jones energy is not zero, beside a pair within it
C5_Witness ==
    /\ call.op = "compute_energy_and_gradient_cutoff"
    /\ call.ret.raised = "none"
    /\ \E n \in 1..Len(sim.pairs) :
          /\ Beyond(sim, call.arg, sim.pairs[n])
          /\ Mul(sim.foureps, Cube(MulInv(sim.sig2, <<1, call.ret.terms[n].r2>>))) # 0
    /\ \E n \in 1..Len(sim.pairs) :
          /\ ~Beyond(sim, call.arg, sim.pairs[n])
          /\ call.ret.terms[n].pairenergy \notin {0, NaN}

\* the object of class MDSimulation with the parameters of sim
HardCutoff == [f \in DOMAIN sim \ {"window"} |-> IF f = "cls" THEN "MDSimulation" ELSE sim[f]]

(* C6: an MDSimulationSwitch with window = 0 returns, for every position   *)
(* array, the energy and the forces of the hard-cutoff evaluator with the  *)
(* same parameters; nothing divides by zero, in the constructor's call of  *)
(* the evaluator either; the switched formula is not evaluated.            *)
C6_WindowZero ==
    ("window" \in DOMAIN sim /\ sim.window = 0) =>
        /\ err # "ZeroDivisionError"
        /\ call.op = "compute_energy_and_gradient" =>
              /\ call.ret.raised # "ZeroDivisionError"
              /\ call.ret.raised = compute_energy_and_gradient(HardCutoff, call.arg).raised
              /\ call.ret.raised = "none" =>
                    /\ call.ret.energy = compute_energy_and_gradient(HardCutoff, call.arg).energy
                    /\ call.ret.forces = compute_energy_and_gradient(HardCutoff, call.arg).forces
                    /\ \A n \in 1..Len(sim.pairs) : "switch" \notin DOMAIN call.ret.terms[n]

\* a switched simulation with window 0 has evaluated an array with a pair within the cutoff
C6_Witness ==
    /\ status = "constructed"
    /\ sim.cls = "MDSimulationSwitch"
    /\ sim.window = 0
    /\ call.op = "compute_energy_and_gradient"
    /\ call.ret.raised = "none"
    /\ call.ret.energy \notin {0, NaN}

Evaluators ==
    {"compute_energy_and_gradient", "compute_energy_and_gradient_cutoff",
     "compute_energy_and_gradient_switch"}

\* an evaluator was called and returned
Evaluated == call.op \in Evaluators /\ call.ret.raised = "none"

\* the sum of the rows of the array forces
Total(forces) ==
    << Sum([k \in 1..sim.natoms |-> forces[k - 1][1]], 1, sim.natoms),
       Sum([k \in 1..sim.natoms |-> forces[k - 1][2]], 1, sim.natoms) >>

\* component c of what the pairs add to the entry of atom: plus where it is i, minus where it is j
Received(terms, atom, c) ==
    Sum([n \in 1..Len(sim.pairs) |->
            IF sim.pairs[n][1] = atom THEN terms[n].pairforce[c]
            ELSE IF sim.pairs[n][2] = atom THEN Neg(terms[n].pairforce[c])
            ELSE 0],
        1, Len(sim.pairs))

(* C7, as the spec states it: in both evaluator modes, for every position  *)
(* array, the sum of the returned force array over the atoms is the zero   *)
(* vector.                                                                 *)
C7_EveryArray == Evaluated => Total(call.ret.forces) = <<0, 0>>

(* C7, as the code has it: each pair (i, j) adds its pair vector to the    *)
(* entry of i and subtracts it from the entry of j; the sum over the atoms *)
(* is the zero vector for every array whose pair vectors are all numbers.  *)
(* Two atoms at the same place give a pair vector of nan, and the sum is   *)
(* nan.                                                                    *)
C7_ThirdLaw ==
    Evaluated =>
        /\ \A atom \in 0..(sim.natoms - 1) : \A c \in 1..2 :
              call.ret.forces[atom][c] = Received(call.ret.terms, atom, c)
        /\ (\A n \in 1..Len(sim.pairs) : ~IsNaN(call.ret.terms[n].pairforce[1]))
              => Total(call.ret.forces) = <<0, 0>>

\* the switched evaluator has returned forces that are numbers and not all zero
C7_Witness ==
    /\ Evaluated
    /\ call.op = "compute_energy_and_gradient_switch"
    /\ \A n \in 1..Len(sim.pairs) : ~IsNaN(call.ret.terms[n].pairforce[1])
    /\ \E atom \in 0..(sim.natoms - 1) : call.ret.forces[atom] # <<0, 0>>

C8_AllPairs ==
    status = "constructed" =>
        /\ sim.natoms >= 2
        /\ 2 * Len(sim.pairs) = sim.natoms * (sim.natoms - 1)
        /\ \A n \in 1..Len(sim.pairs) :
              0 <= sim.pairs[n][1] /\ sim.pairs[n][1] < sim.pairs[n][2] /\ sim.pairs[n][2] < sim.natoms
        /\ \A m, n \in 1..Len(sim.pairs) : m # n => sim.pairs[m] # sim.pairs[n]
        /\ {sim.pairs[n] : n \in 1..Len(sim.pairs)} =
              {<<i, j>> \in (0..(sim.natoms - 1)) \X (0..(sim.natoms - 1)) : i < j}

C8_SameOrder == status = "constructed" => sim'.pairs = sim.pairs

(* C8: in every state of a constructed simulation, after any evaluator,    *)
(* testgrad and propagate calls, the pair list holds each of the N(N-1)/2  *)
(* pairs (i, j), 0 <= i < j < N, once, with no pair (i, i) and none twice, *)
(* in the order it had at construction.                                    *)
C8_PairList == []C8_AllPairs /\ [][C8_SameOrder]_vars

\* propagate() has been called three times and testgrad() after them
C8_Witness ==
    /\ status = "constructed"
    /\ Steps = 3
    /\ call.op = "testgrad"
    /\ Len(sim.pairs) = 6

(* C9: apply_periodicity returns an array in which every component is the  *)
(* given one less a whole multiple of L, and is at most L/2 in magnitude:  *)
(* the multiple taken off is the nearest one.                              *)
C9_MinimumImage ==
    call.op = "apply_periodicity" =>
        \A n \in DOMAIN call.ret : \A c \in 1..2 :
            /\ (call.arg[n][c] - call.ret[n][c]) % sim.boxlength = 0
            /\ 2 * Abs(call.ret[n][c]) <= sim.boxlength

\* a component more than two box lengths out has been brought back, and one exactly L/2 out
C9_Witness ==
    /\ call.op = "apply_periodicity"
    /\ \E n \in DOMAIN call.ret : \E c \in 1..2 :
          Abs(call.arg[n][c] - call.ret[n][c]) >= 2 * sim.boxlength
    /\ \E n \in DOMAIN call.ret : \E c \in 1..2 :
          2 * Abs(call.arg[n][c]) = sim.boxlength

(* C10: apply_periodicity is a pure function: a call leaves the array      *)
(* passed to it as it was, and only the returned value is wrapped.         *)
C10_Pure == call.op = "apply_periodicity" => call.after = call.arg

\* an evaluator was called with an array whose number of rows is not N
Mismatched == call.op \in Evaluators /\ DOMAIN call.arg # 0..(sim.natoms - 1)

(* C11: a call of the evaluator with a position array of fewer or of more  *)
(* than N rows fails.                                                      *)
C11_SizeMismatch == Mismatched => call.ret.raised # "none"

\* testgrad() was called, and it got as far as its comparison
Compared == call.op = "testgrad" /\ call.refF # << >>

Entries == (0..(sim.natoms - 1)) \X (1..2)

\* an evaluator has returned for an array of N rows
EvaluatedN == Evaluated /\ DOMAIN call.arg = 0..(sim.natoms - 1)

\* what the evaluator called returns when coordinate c of atom is d grid units from where
\* it is in the array evaluated
ResultAt(atom, c, d) == invoke(sim, call.op, displace(call.arg, atom, c, d))

Rises(Em, E0, Ep) == ~IsNaN(Em) /\ ~IsNaN(E0) /\ ~IsNaN(Ep) /\ Em < E0 /\ E0 < Ep

\* the minimum-image pair vectors with coordinate c of atom moved by d grid units
ImagesAt(atom, c, d) ==
    apply_periodicity(sim, pair_differences(sim, displace(call.arg, atom, c, d))).ret

\* the two arrays of pair vectors differ by at most one grid unit in every component
Near(dR, dS) ==
    \A n \in 1..Len(sim.pairs) : \A k \in 1..2 : Abs(Sub(dR[n][k], dS[n][k])) <= delta

\* no pair changes its nearest image between the points of the centred difference (a grid
\* unit is a finite step: it can carry a pair across half the box, which 1e-6 does not)
SameImages(dRm, dR0, dRp) == Near(dR0, dRp) /\ Near(dR0, dRm)

\* the pairs that have an energy in the result R
Active(R) == {n \in 1..Len(sim.pairs) : R.terms[n].pairenergy # 0}

\* at the three points of the centred difference no pair but one has an energy: the energy
\* is that of one pair, a function of one distance (a grid unit is a finite step: with
\* several pairs in range it sums jumps at the cutoff that 1e-6 does not see)
OnePair(Rm, R0, Rp) == Cardinality(Active(Rm) \cup Active(R0) \cup Active(Rp)) <= 1

\* the energy rises from Rm through R0 to Rp
Monotone(Rm, R0, Rp) == Rises(Rm.energy, R0.energy, Rp.energy) /\ OnePair(Rm, R0, Rp)

\* the energy rises, or falls, through the three points of the centred difference
Rising(atom, c) ==
    /\ Monotone(ResultAt(atom, c, -delta), call.ret, ResultAt(atom, c, delta))
    /\ SameImages(ImagesAt(atom, c, -delta), ImagesAt(atom, c, 0), ImagesAt(atom, c, delta))
Falling(atom, c) ==
    /\ Monotone(ResultAt(atom, c, delta), call.ret, ResultAt(atom, c, -delta))
    /\ SameImages(ImagesAt(atom, c, -delta), ImagesAt(atom, c, 0), ImagesAt(atom, c, delta))

\* the entry of the array returned is a number above, or below, zero
Positive(e) == ~IsNaN(call.ret.forces[e[1]][e[2]]) /\ call.ret.forces[e[1]][e[2]] > 0
Negative(e) == ~IsNaN(call.ret.forces[e[1]][e[2]]) /\ call.ret.forces[e[1]][e[2]] < 0

Configuration ==
    [cls |-> sim.cls, sigma |-> sim.sigma, epsilon |-> sim.epsilon, mass |-> sim.mass,
     temp |-> sim.T, dt |-> sim.dt, atoms_per_dim |-> sim.atoms_per_dim,
     boxlength |-> sim.boxlength, cutoff |-> sim.cutoff,
     window |-> IF "window" \in DOMAIN sim THEN sim.window ELSE 0, nsteps |-> sim.nsteps]

\* the sequence runs of simulations, and its last after one more call of propagate()
Another(runs) == Append(runs, propagate(runs[Len(runs)]).self)

RECURSIVE Rerun(_, _)
\* a second simulation of the same configuration, constructed when the generator is in
\* state g: as constructed, and after each of k calls of propagate()
Rerun(g, k) ==
    IF k = 0 THEN <<MDSimulation_init(Configuration, g).self>>
    ELSE Another(Rerun(g, k - 1))

\* the positions, the time and the energy series
Trajectory == {"coords", "last_coords", "timestep", "timeseries", "PEs", "KEs", "TEs"}

\* the second simulation went through the positions of sim, and is where sim is
SameTrajectory(runs) ==
    /\ runs[1].last_coords = hist[1]
    /\ \A k \in 0..Steps : runs[k + 1].coords = hist[k + 2]
    /\ \A f \in Trajectory : runs[Steps + 1][f] = sim[f]

(* C13: a simulation of the same configuration, constructed whatever the   *)
(* state of the random generator is, starts from the same jittered lattice *)
(* and, with the same velocities, takes the same first step; after the     *)
(* same number of propagate() calls it has the same positions, position    *)
(* history and energy series.                                              *)
C13_Reproducible ==
    (status = "constructed" /\ call = NoCall) =>
        \A g \in RngStates : SameTrajectory(Rerun(g, Steps))

\* three calls of propagate() on a trajectory with a potential energy that is not zero
C13_Witness ==
    /\ status = "constructed"
    /\ call = NoCall
    /\ Steps = 3
    /\ hist[2] # hist[1]
    /\ sim.PEs[4] \notin {0, NaN}

\* a simulation with a switching window has evaluated the switched potential for an array
Switched ==
    /\ call.op \in {"compute_energy_and_gradient", "compute_energy_and_gradient_switch"}
    /\ sim.cls = "MDSimulationSwitch"
    /\ 0 < sim.window
    /\ sim.window <= sim.cutoff
    /\ call.ret.raised = "none"

\* the squared distance of pair n of the array evaluated
CallDistance2(n) == Distance2(sim, call.arg, sim.pairs[n])

(* C14: in switched mode with 0 < window <= cutoff, the factor applied to  *)
(* a pair's energy is 1 where r^2 <= (cutoff - window)^2, is 0 where       *)
(* r^2 = cutoff^2 and where r^2 > cutoff^2, and is between 0 and 1 inside  *)
(* the window; the derivative term is 0 where r^2 <= (cutoff - window)^2   *)
(* and where r^2 >= cutoff^2.                                              *)
C14_SwitchingFactor ==
    Switched => \A n \in 1..Len(sim.pairs) :
        /\ call.ret.terms[n].pairenergy =
              Mul(call.ret.terms[n].switch, Sub(call.ret.terms[n].rep, call.ret.terms[n].att))
        /\ ~IsNaN(CallDistance2(n)) =>
              /\ CallDistance2(n) <= switch_on2(sim) =>
                    call.ret.terms[n].switch = Q /\ call.ret.terms[n].dswitch = 0
              /\ CallDistance2(n) >= sim.cutoff2 =>
                    call.ret.terms[n].switch = 0 /\ call.ret.terms[n].dswitch = 0
              /\ (switch_on2(sim) < CallDistance2(n) /\ CallDistance2(n) < sim.cutoff2) =>
                    0 <= call.ret.terms[n].switch /\ call.ret.terms[n].switch <= Q

\* an array with a pair inside the window, its factor strictly between 0 and 1, and a
\* pair beyond the cutoff
C14_Witness ==
    /\ Switched
    /\ \E n \in 1..Len(sim.pairs) :
          /\ switch_on2(sim) < CallDistance2(n)
          /\ CallDistance2(n) < sim.cutoff2
          /\ 0 < call.ret.terms[n].switch
          /\ call.ret.terms[n].switch < Q
          /\ call.ret.terms[n].dswitch # 0
    /\ \E n \in 1..Len(sim.pairs) : CallDistance2(n) > sim.cutoff2

\* the evaluator the configuration of self selects
Selected(self, X) ==
    IF self.cls = "MDSimulationSwitch" /\ self.window # 0
    THEN compute_energy_and_gradient_switch(self, X)
    ELSE compute_energy_and_gradient_cutoff(self, X)

\* sim when the positions hist[k] were current
At(k) == [sim EXCEPT !.coords = hist[k], !.last_coords = hist[IF k > 1 THEN k - 1 ELSE 1]]

\* the bootstrap evaluation, and the evaluation of every propagate() call made
C15_Trajectory ==
    /\ \A k \in 1..Len(sim.PEs) : sim.PEs[k] = Selected(sim, hist[k]).energy
    /\ hist[2] = first_step(At(1), init_velocities(sim, rng_after(seed(rng, 0), 2 * sim.natoms)),
                            acceleration(sim, Selected(sim, hist[1]).forces))
    /\ \A k \in 3..Len(hist) :
          hist[k] = verlet(At(k - 1), acceleration(sim, Selected(sim, hist[k - 1]).forces))

\* an evaluation asked for by name of the overridable method, and those of testgrad()
C15_Calls ==
    /\ call.op = "compute_energy_and_gradient" =>
          /\ call.ret.raised = Selected(sim, call.arg).raised
          /\ call.ret.raised = "none" => call.ret = Selected(sim, call.arg)
    /\ Compared =>
          /\ call.refF = Selected(sim, sim.coords).forces
          /\ \A e \in Entries :
                call.fdgrad[e[1]][e[2]] =
                    centred(Selected(sim, displace(sim.coords, e[1], e[2], delta)).energy,
                            Selected(sim, displace(sim.coords, e[1], e[2], -delta)).energy)

(* C15: every potential evaluation of one simulation, the one in the       *)
(* constructor that gives the first energy record and the bootstrap step,  *)
(* the one of every propagate() call, those of testgrad() and those asked  *)
(* for through compute_energy_and_gradient, is made by the evaluator the   *)
(* configuration selects: the switched one for an MDSimulationSwitch with  *)
(* window # 0, the hard cutoff otherwise.                                  *)
C15_OneStrategy ==
    status = "constructed" => IF call = NoCall THEN C15_Trajectory ELSE C15_Calls

\* a switched simulation after three steps, whose first energy record is not the one the
\* hard cutoff gives for the initial lattice
C15_Witness ==
    /\ status = "constructed"
    /\ call = NoCall
    /\ sim.cls = "MDSimulationSwitch"
    /\ sim.window # 0
    /\ Steps = 3
    /\ sim.PEs[1] # compute_energy_and_gradient_cutoff(sim, hist[1]).energy

(* C16: every constructed switched simulation has cutoff < boxlength/2     *)
(* and, where it has a switching window (window # 0), 0 < window <= cutoff.*)
C16_ParameterInvariant ==
    (status = "constructed" /\ sim.cls = "MDSimulationSwitch") =>
        /\ 2 * sim.cutoff < sim.boxlength
        /\ sim.window # 0 => (0 < sim.window /\ sim.window <= sim.cutoff)

-----------------------------------------------------------------------------
\* the array the evaluator returns at the positions hist[k], divided by the mass and negated
MinusGradientOverMass(k) ==
    LET gradient == compute_energy_and_gradient(sim, hist[k]).forces
    IN  [atom \in 0..(sim.natoms - 1) |->
            <<Neg(MulInv(gradient[atom][1], <<1, sim.mass>>)),
              Neg(MulInv(gradient[atom][2], <<1, sim.mass>>))>>]

\* no acceleration at all
AtRest == [atom \in 0..(sim.natoms - 1) |-> <<0, 0>>]

\* the velocities the constructor drew
Drawn == init_velocities(sim, rng_after(seed(rng, 0), 2 * sim.natoms))

(* C17: the sign is applied once, and in the same way, in the bootstrap    *)
(* step and in every propagate() step: the acceleration of both is minus   *)
(* the array the evaluator returned, over the mass; the first step is      *)
(* x1 = x0 + v*dt + 0.5*dt^2*a and every later one the Verlet update, with *)
(* that acceleration at the positions the step starts from.                *)
C17_SignOnce ==
    (status = "constructed" /\ call = NoCall) =>
        /\ hist[2] = first_step(At(1), Drawn, MinusGradientOverMass(1))
        /\ \A k \in 3..Len(hist) : hist[k] = verlet(At(k - 1), MinusGradientOverMass(k - 1))

\* the acceleration moved an atom in the bootstrap step and in a propagate() step
C17_Witness ==
    /\ status = "constructed"
    /\ \A atom \in 0..(sim.natoms - 1) : \A c \in 1..2 : ~IsNaN(sim.coords[atom][c])
    /\ hist[2] # first_step(At(1), Drawn, AtRest)
    /\ \E k \in 3..Len(hist) : hist[k] # verlet(At(k - 1), AtRest)


-----------------------------------------------------------------------------
\* the step is a call of an evaluator, or of testgrad()
EvaluatorCall == call = NoCall /\ call'.op \in Evaluators
TestgradCall == call = NoCall /\ call'.op = "testgrad"

\* the simulation's state: the positions, the time and the energy series, and every
\* other attribute of the object
C19_Unchanged == sim' = sim /\ hist' = hist

(* C19: a call of the evaluator, in either mode, and a call of testgrad()  *)
(* leave the simulation as it was: the array passed in, the current and    *)
(* the previous positions, the time and the energy series have the values  *)
(* they had before the call; of the calls made on a constructed            *)
(* simulation only propagate() changes them.                               *)
C19_Frame ==
    [][/\ EvaluatorCall => (C19_Unchanged /\ call'.after = call'.arg)
       /\ TestgradCall => C19_Unchanged
       /\ (status = "constructed" /\ sim' # sim) => call'.op = "propagate"]_vars

\* testgrad() has displaced the positions, and found other energies there, after a
\* propagate() call
C19_Witness ==
    /\ call.op = "testgrad"
    /\ Steps >= 1
    /\ call.fdgrad # << >>
    /\ \E e \in Entries : ~IsNaN(call.fdgrad[e[1]][e[2]]) /\ call.fdgrad[e[1]][e[2]] # 0

-----------------------------------------------------------------------------
\* (new - previous)/(2*dt) of the propagate() call that appended record j of the series:
\* hist[j] was current and hist[j - 1] previous before it, hist[j + 1] is what it produced
Velocity(j) ==
    [atom \in 0..(sim.natoms - 1) |->
        <<MulInv(Scale(Q, Sub(hist[j + 1][atom][1], hist[j - 1][atom][1])), <<1, 2 * sim.dt>>),
          MulInv(Scale(Q, Sub(hist[j + 1][atom][2], hist[j - 1][atom][2])), <<1, 2 * sim.dt>>)>>]

\* the evaluator's energy at the positions hist[j]
Potential(j) == compute_energy_and_gradient(sim, hist[j]).energy

(* C18: in every record of the energy series the total is the potential    *)
(* plus the kinetic energy and the time is the record's index times dt,    *)
(* so that time strictly increases; the potential of the record that the   *)
(* k-th propagate() call appended is the evaluator's energy at the         *)
(* positions that were current before that call, and its kinetic energy is *)
(* that of the central-difference velocity (new - previous)/(2*dt) of that *)
(* call.  Record j of the model's sequences is index j - 1 of the lists.   *)
C18_EnergySeries ==
    (status = "constructed" /\ call = NoCall) =>
        /\ \A j \in 1..Len(sim.TEs) :
              /\ sim.TEs[j] = Add(sim.PEs[j], sim.KEs[j])
              /\ sim.timeseries[j] = (j - 1) * sim.dt
              /\ j > 1 => sim.timeseries[j] > sim.timeseries[j - 1]
        /\ sim.PEs[1] = Potential(1)
        /\ \A j \in 2..Len(sim.PEs) :
              /\ sim.PEs[j] = Potential(j)
              /\ sim.KEs[j] = kinetic(sim.mass, Velocity(j), sim.natoms)

\* a propagate() call has appended a record whose potential energy is not the energy at
\* the positions the call produced, with atoms in motion
C18_Witness ==
    /\ status = "constructed"
    /\ call = NoCall
    /\ \E j \in 2..Len(sim.PEs) :
          /\ ~IsNaN(sim.TEs[j])
          /\ sim.PEs[j] # Potential(j + 1)
          /\ sim.PEs[j] # 0
          /\ sim.KEs[j] # 0

-----------------------------------------------------------------------------
\* the numbers of box lengths an atom is translated by
Multiples == {-2, -1, 1, 2}

\* the array handed to the evaluator, with one atom translated by m box lengths along axis c
Translated(atom, c, m) == displace(call.arg, atom, c, m * sim.boxlength)

\* the evaluator called returns for the array X the energy and the array it returned
Same(r) == r.raised = "none" /\ r.energy = call.ret.energy /\ r.forces = call.ret.forces
SameResult(X) == Same(invoke(sim, call.op, X))

\* propagate() stored the positions of the Verlet update as they are, and wrapped the
\* copy it displays
C20_Stored ==
    (status = "constructed" /\ call.op = "propagate" /\ call.raised = "none") =>
        /\ sim.coords = verlet(At(Len(hist) - 1),
                               acceleration(sim, compute_energy_and_gradient(sim, sim.last_coords).forces))
        /\ sim.last_coords = hist[Len(hist) - 1]
        /\ sim.coorddata = apply_periodicity(sim, sim.coords).ret

\* the minimum-image pair vectors of the array X: all that either evaluator reads of X
Images(X) == apply_periodicity(sim, pair_differences(sim, X)).ret

\* one multiple for each atom and axis, for which the whole evaluation is repeated
Multiple(atom, c) == IF (atom + c) % 2 = 0 THEN 1 ELSE -2

\* the evaluator does not tell an atom from its periodic images: the pair vectors are the
\* same for every translation, and so are the energy and the array returned, for a
\* translation of each atom along each axis and for the array wrapped into the box
C20_Images ==
    Evaluated =>
        /\ \A atom \in DOMAIN call.arg : \A c \in 1..2 :
              /\ \A m \in Multiples : Images(Translated(atom, c, m)) = Images(call.arg)
              /\ SameResult(Translated(atom, c, Multiple(atom, c)))
        /\ SameResult(apply_periodicity(sim, call.arg).ret)

(* C20: the integrator never wraps the positions it stores, only the copy  *)
(* propagate() displays; and the evaluator is invariant under periodic     *)
(* images: an atom translated by a multiple of boxlength along either axis *)
(* leaves the energy and every entry of the returned array as they were,   *)
(* so positions that have left the box are evaluated as if wrapped.        *)
C20_PeriodicImages == C20_Stored /\ C20_Images

\* the evaluator is called on the positions of a trajectory that has left the box, in
\* which atoms interact
C20_Witness ==
    /\ Evaluated
    /\ Steps >= 1
    /\ call.arg = sim.coords
    /\ sim.coords # apply_periodicity(sim, sim.coords).ret
    /\ \A atom \in DOMAIN sim.coords : ~IsNaN(sim.coords[atom][1]) /\ ~IsNaN(sim.coords[atom][2])
    /\ call.ret.energy # 0
    /\ \E atom \in DOMAIN call.ret.forces : call.ret.forces[atom] # <<0, 0>>

====
